---- MODULE Spec2Model ----
(***************************************************************************)
(* A model of nlp_modules_utils/utils.py: the SQL statement builders, the  *)
(* status updater, the presigned-url generator, the S3 uploader, the       *)
(* callback notifier, the callback-retry recorder and Database.            *)
(*                                                                         *)
(* Every function of the module is synchronous, so one action is one whole *)
(* call.  The collaborators (psycopg2, boto3, requests, the logger) are    *)
(* recorded as the sequence of calls made on them (calls) and the sequence *)
(* of log records written (logs); whether a collaborator raises is an      *)
(* input of the action.  connection.close() is taken to be total: psycopg2 *)
(* makes it idempotent and it reports no server error.                     *)
(***************************************************************************)
EXTENDS Integers, Sequences, FiniteSets, TLC

VARIABLES
    conn,     \* the connection object of the latest db_connection: "none", "open", "closed"
    cur,      \* its cursor object: "none", "open", "closed"
    held,     \* TRUE when the caller holds the (conn, cur) pair db_connection returned
    open_conns, \* the connections open on the server, unreachable ones included
    op,       \* the function called last
    args,     \* its arguments
    calls,    \* the calls it made on its collaborators, in order
    logs,     \* the log records it wrote, in order
    built,    \* the SQL statements it built, in order
    ret,      \* what it returned
    raised    \* the exception that escaped it, "none" when it returned

vars == <<conn, cur, held, open_conns, op, args, calls, logs, built, ret, raised>>

----------------------------------------------------------------------------
(* Values *)

None == [kind |-> "None"]
Str(s) == [kind |-> "str", v |-> s]
Pair(a, b) == [kind |-> "pair", fst |-> a, snd |-> b]
Response(status, body) == [kind |-> "response", status_code |-> status, body |-> body]
NoReturn == [kind |-> "no return"]

Log(level, msg) == [level |-> level, msg |-> msg]

\* StateHandler
INITIATED == 1
SUCCESS == 2
FAILED == 3
INPUT_URL_PROCESS_FAILED == 4
StateHandler == {INITIATED, SUCCESS, FAILED, INPUT_URL_PROCESS_FAILED}

\* Defaults of the signatures
SignedUrlExpirySecs == 86400
PostTimeout == 30
DefaultRegion == "us-east-1"

----------------------------------------------------------------------------
(* Inputs *)

\* the server refuses a connection beyond this many
MaxOpenConns == 2

UniqueIds == {"abc-123", "it's"}
DbTables == {"tasks", "nlp.events"}
NowDates == {"2024-01-01T00:00:00", "2024-06-30T23:59:59.123456"}

\* a JSON value: a string, an integer or null
JStr(s) == [t |-> "str", v |-> s]
JInt(i) == [t |-> "int", v |-> i]
JNull == [t |-> "null"]
\* a dict, as the sequence of its (key, value) items in insertion order
ResponseDatas ==
    { <<>>,
      << <<"summary", JStr("ok")>> >>,
      << <<"a", JNull>>, <<"b", JInt(-1)>>, <<"c", JStr("it's")>> >> }

----------------------------------------------------------------------------
(* json.dumps, for the values above: items joined by ", ", key and value   *)
(* by ": ", strings in double quotes, None as null.                        *)

json_dumps_value(v) ==
    CASE v.t = "str"  -> "\"" \o v.v \o "\""
      [] v.t = "int"  -> ToString(v.v)
      [] v.t = "null" -> "null"

RECURSIVE json_dumps_items(_)
json_dumps_items(items) ==
    IF items = <<>> THEN ""
    ELSE LET h == Head(items)
             one == "\"" \o h[1] \o "\": " \o json_dumps_value(h[2])
         IN  IF Len(items) = 1 THEN one
             ELSE one \o ", " \o json_dumps_items(Tail(items))

json_dumps(d) == "{" \o json_dumps_items(d) \o "}"

----------------------------------------------------------------------------
(* The SQL statement builders: f-strings in triple quotes, so the text     *)
(* starts with a newline and the indentation of the statement's line and   *)
(* ends with a newline and the indentation of the closing quotes.          *)

\* with the status not quoted
prepare_sql_statement_success_bare_status(unique_id, db_table, status, response_data) ==
    "\n        UPDATE " \o db_table \o " SET status=" \o ToString(status)
        \o ", result_data='" \o json_dumps(response_data)
        \o "' WHERE unique_id='" \o unique_id \o "'\n    "

prepare_sql_statement_success(unique_id, db_table, status, response_data) ==
    "\n        UPDATE " \o db_table \o " SET status='" \o ToString(status)
        \o "', result_data='" \o json_dumps(response_data)
        \o "' WHERE unique_id='" \o unique_id \o "'\n    "

prepare_sql_statement_failure(unique_id, db_table, status) ==
    "\n        UPDATE " \o db_table \o " SET status='" \o ToString(status)
        \o "' WHERE unique_id='" \o unique_id \o "'\n    "

\* now_date is datetime.now().isoformat(), read once
prepare_sql_statement_callback_failure(unique_id, db_table, now_date) ==
    "\n        INSERT INTO " \o db_table
        \o " (request_unique_id, created_at, modified_at, retries_count, status) "
        \o "\n        VALUES ('" \o unique_id \o "', '" \o now_date \o "', '"
        \o now_date \o "', 0, 3)\n    "

----------------------------------------------------------------------------
(* status_update_db.  db_conn and db_cursor are TRUE when the argument is  *)
(* the object, FALSE when it is None; c and k are the states of the        *)
(* connection and cursor objects on entry.  f names the collaborator call  *)
(* that raises.  execute also raises (psycopg2.InterfaceError) on a cursor *)
(* or connection that is not open.  The result is the effect of the call.  *)

\* f: the collaborator call that raises a database error, if any
Faults == {"none", "execute", "commit", "cursor_close"}

\* The exception classes met here, each with its base classes.
Bases ==
    [ DatabaseError |-> {"Exception"},
      InterfaceError |-> {"Exception"},
      AttributeError |-> {"Exception"},
      ClientError |-> {"Exception"},
      NoCredentialsError |-> {"Exception"},
      OperationalError |-> {"DatabaseError", "Exception"},
      RequestException |-> {"Exception"},
      ConnectionError |-> {"RequestException", "Exception"},
      JSONDecodeError |-> {"ValueError", "Exception"} ]

\* whether an `except classes` clause handles exc
handles(classes, exc) ==
    exc # "none" /\ (exc \in classes \/ Bases[exc] \cap classes # {})

\* the try block: the calls made, the records logged, the cursor after it and
\* the exception that ended it
status_update_db_try(db_conn, sql_statement, c, k, f) ==
    LET execute == [m |-> "cursor.execute", sql |-> sql_statement]
        commit == [m |-> "conn.commit"]
        cursor_close == [m |-> "cursor.close"]
        updated == Log("info", "Db updated. Number of rows affected")
    IN  IF f = "execute"
        THEN [calls |-> <<execute>>, logs |-> <<>>, cur |-> k,
              exc |-> "DatabaseError"]
        ELSE IF k # "open" \/ c # "open"
        THEN [calls |-> <<execute>>, logs |-> <<>>, cur |-> k,
              exc |-> "InterfaceError"]
        ELSE IF ~db_conn     \* None.commit()
        THEN [calls |-> <<execute>>, logs |-> <<updated>>, cur |-> k,
              exc |-> "AttributeError"]
        ELSE IF f = "commit"
        THEN [calls |-> <<execute, commit>>, logs |-> <<updated>>, cur |-> k,
              exc |-> "DatabaseError"]
        ELSE IF f = "cursor_close"
        THEN [calls |-> <<execute, commit, cursor_close>>, logs |-> <<updated>>,
              cur |-> k, exc |-> "DatabaseError"]
        ELSE [calls |-> <<execute, commit, cursor_close>>, logs |-> <<updated>>,
              cur |-> "closed", exc |-> "none"]

\* a handler for psycopg2.DatabaseError alone
status_update_db_except_DatabaseError(exc) == handles({"DatabaseError"}, exc)

\* except (Exception, psycopg2.DatabaseError) as error
status_update_db_except(exc) == handles({"Exception", "DatabaseError"}, exc)

\* try, except: logger.error(error), finally: if db_conn is not None: db_conn.close()
status_update_db_run(db_conn, sql_statement, c, k, f) ==
    LET body == status_update_db_try(db_conn, sql_statement, c, k, f)
        caught == status_update_db_except(body.exc)
        logged == IF caught THEN Append(body.logs, Log("error", body.exc))
                  ELSE body.logs
        escaped == IF caught THEN "none" ELSE body.exc
    IN  IF db_conn
        THEN [calls |-> Append(body.calls, [m |-> "conn.close"]), logs |-> logged,
              conn |-> "closed", cur |-> body.cur, raised |-> escaped]
        ELSE [calls |-> body.calls, logs |-> logged,
              conn |-> c, cur |-> body.cur, raised |-> escaped]

\* without the test of db_cursor: None.execute raises before the try is entered
status_update_db_unguarded(db_conn, db_cursor, sql_statement, c, k, f) ==
    IF ~db_cursor
    THEN [calls |-> <<>>, logs |-> <<>>, conn |-> c, cur |-> k,
          raised |-> "AttributeError"]
    ELSE status_update_db_run(db_conn, sql_statement, c, k, f)

status_update_db(db_conn, db_cursor, sql_statement, c, k, f) ==
    IF ~db_cursor
    THEN [calls |-> <<>>, logs |-> <<>>, conn |-> c, cur |-> k, raised |-> "none"]
    ELSE status_update_db_run(db_conn, sql_statement, c, k, f)

----------------------------------------------------------------------------
(* update_db_table_callback_retry: the effect of the call, and the         *)
(* statements it built.                                                    *)

\* with `or` for `and`
has_fields_or(unique_id, db_table) == db_table # "" \/ unique_id # ""

\* if db_table and unique_id: an empty string is false
has_fields(unique_id, db_table) == db_table # "" /\ unique_id # ""

update_db_table_callback_retry(db_conn, db_cursor, unique_id, db_table, now_date, c, k, f) ==
    IF has_fields(unique_id, db_table)
    THEN LET sql_statement ==
                 prepare_sql_statement_callback_failure(unique_id, db_table, now_date)
             r == status_update_db(db_conn, db_cursor, sql_statement, c, k, f)
         IN  [calls |-> r.calls,
              logs |-> IF r.raised = "none"
                       THEN Append(r.logs,
                               Log("info", "Updated the db table for callback retries."))
                       ELSE r.logs,
              built |-> <<sql_statement>>,
              conn |-> r.conn, cur |-> r.cur, raised |-> r.raised]
    ELSE [calls |-> <<>>,
          logs |-> <<Log("error", "Failed to update table for callback retries. Some missing fields")>>,
          built |-> <<>>,
          conn |-> c, cur |-> k, raised |-> "none"]

----------------------------------------------------------------------------
(* Database.db_connection: connect, then conn.cursor(); connect and cursor *)
(* are "ok" or the exception the call raises.  except Exception logs and   *)
(* returns (None, None).  The result also holds the states of the objects  *)
(* created: a connection whose cursor() raised stays open.                 *)

\* with conn.cursor() after the try block's return of the connection
db_connection_cursor_outside(connect, cursor) ==
    IF connect # "ok"
    THEN [calls |-> <<[m |-> "psycopg2.connect"]>>,
          logs |-> <<Log("error", "Database connection failed")>>,
          conn |-> "none", cur |-> "none", ret |-> Pair(None, None),
          raised |-> "none"]
    ELSE IF cursor # "ok"
    THEN [calls |-> <<[m |-> "psycopg2.connect"], [m |-> "conn.cursor"]>>,
          logs |-> <<Log("error", "Database connection failed")>>,
          conn |-> "open", cur |-> "none", ret |-> Pair(Str("conn"), None),
          raised |-> "none"]
    ELSE [calls |-> <<[m |-> "psycopg2.connect"], [m |-> "conn.cursor"]>>,
          logs |-> <<>>, conn |-> "open", cur |-> "open",
          ret |-> Pair(Str("conn"), Str("cur")), raised |-> "none"]

db_connection(connect, cursor) ==
    LET body ==
            IF connect # "ok"
            THEN [calls |-> <<[m |-> "psycopg2.connect"]>>,
                  conn |-> "none", cur |-> "none", exc |-> connect]
            ELSE IF cursor # "ok"
            THEN [calls |-> <<[m |-> "psycopg2.connect"], [m |-> "conn.cursor"]>>,
                  conn |-> "open", cur |-> "none", exc |-> cursor]
            ELSE [calls |-> <<[m |-> "psycopg2.connect"], [m |-> "conn.cursor"]>>,
                  conn |-> "open", cur |-> "open", exc |-> "none"]
        caught == handles({"Exception"}, body.exc)
    IN  [calls |-> body.calls,
         logs |-> IF caught THEN <<Log("error", "Database connection failed")>>
                  ELSE <<>>,
         conn |-> body.conn, cur |-> body.cur,
         ret |-> IF body.exc = "none" THEN Pair(Str("conn"), Str("cur"))
                 ELSE IF caught THEN Pair(None, None)
                 ELSE NoReturn,
         raised |-> IF caught THEN "none" ELSE body.exc]

----------------------------------------------------------------------------
(* generate_presigned_url.  s3_client is TRUE when a client is passed; out *)
(* is what the client's generate_presigned_url does: its exception, or     *)
(* "ok" and the url it returns.                                            *)

generate_presigned_url(bucket_name, key, s3_client, signed_url_expiry_secs, aws_region, out) ==
    LET construct == [m |-> "boto3.client", region_name |-> aws_region,
                      signature_version |-> "s3v4", addressing_style |-> "path"]
        presign == [m |-> "s3_client.generate_presigned_url",
                    ClientMethod |-> "get_object", Bucket |-> bucket_name,
                    Key |-> key, ExpiresIn |-> signed_url_expiry_secs]
        made == IF s3_client THEN <<presign>> ELSE <<construct, presign>>
        exc == IF out.presign = "ok" THEN "none" ELSE out.presign
        caught == handles({"ClientError"}, exc)
    IN  [calls |-> made,
         logs |-> IF caught
                  THEN <<Log("error", "Error while generating presigned url")>>
                  ELSE <<>>,
         ret |-> IF exc = "none" THEN Str(out.url)
                 ELSE IF caught THEN None
                 ELSE NoReturn,
         raised |-> IF caught THEN "none" ELSE exc]

----------------------------------------------------------------------------
(* upload_to_s3: bucket.upload_fileobj, then generate_presigned_url for    *)
(* the same bucket and key.  out.upload is "ok" or the exception of the    *)
(* upload.                                                                 *)

\* with the url requested before the upload
upload_to_s3_presign_first(contents, contents_type, bucket_name, key, aws_region, s3_client, signed_url_expiry_secs, out) ==
    LET upload == [m |-> "bucket.upload_fileobj", Bucket |-> bucket_name,
                   Key |-> key, Body |-> contents, ContentType |-> contents_type]
        g == generate_presigned_url(bucket_name, key, s3_client,
                                    signed_url_expiry_secs, aws_region, out)
        \* the try block
        body ==
            IF g.raised # "none"
            THEN [calls |-> g.calls, logs |-> g.logs, ret |-> NoReturn,
                  exc |-> g.raised]
            ELSE IF out.upload # "ok"
            THEN [calls |-> Append(g.calls, upload), logs |-> g.logs,
                  ret |-> NoReturn, exc |-> out.upload]
            ELSE [calls |-> Append(g.calls, upload), logs |-> g.logs, ret |-> g.ret,
                  exc |-> "none"]
        caught == handles({"ClientError"}, body.exc)
    IN  [calls |-> body.calls,
         logs |-> IF caught THEN Append(body.logs, Log("error", body.exc))
                  ELSE body.logs,
         ret |-> IF body.exc = "none" THEN body.ret
                 ELSE IF caught THEN None
                 ELSE NoReturn,
         raised |-> IF caught THEN "none" ELSE body.exc]

upload_to_s3(contents, contents_type, bucket_name, key, aws_region, s3_client, signed_url_expiry_secs, out) ==
    LET upload == [m |-> "bucket.upload_fileobj", Bucket |-> bucket_name,
                   Key |-> key, Body |-> contents, ContentType |-> contents_type]
        g == generate_presigned_url(bucket_name, key, s3_client,
                                    signed_url_expiry_secs, aws_region, out)
        \* the try block
        body ==
            IF out.upload # "ok"
            THEN [calls |-> <<upload>>, logs |-> <<>>, ret |-> NoReturn,
                  exc |-> out.upload]
            ELSE [calls |-> <<upload>> \o g.calls, logs |-> g.logs, ret |-> g.ret,
                  exc |-> g.raised]
        caught == handles({"ClientError"}, body.exc)
    IN  [calls |-> body.calls,
         logs |-> IF caught THEN Append(body.logs, Log("error", body.exc))
                  ELSE body.logs,
         ret |-> IF body.exc = "none" THEN body.ret
                 ELSE IF caught THEN None
                 ELSE NoReturn,
         raised |-> IF caught THEN "none" ELSE body.exc]

----------------------------------------------------------------------------
(* send_request_on_callback.  out.post is "ok" or the exception of         *)
(* requests.post; out.status_code is the status of the response; out.json  *)
(* is what response.json() does: "ok", or the exception it raises          *)
(* (JSONDecodeError for a body that is not JSON, AttributeError for a      *)
(* response object without the method).                                    *)

send_request_on_callback(callback_url, response_data, headers, out) ==
    LET post == [m |-> "requests.post", url |-> callback_url, headers |-> headers,
                 data |-> json_dumps(response_data), timeout |-> PostTimeout]
        response == Response(out.status_code, out.json)
        sending == Log("info", "Sending the data to the callback url")
        status == Log("info", "Response HTTP status code is")
        failed == Log("error", "Error while sending the request on callback url")
    IN  IF out.post # "ok"
        THEN IF handles({"RequestException"}, out.post)
             THEN [calls |-> <<post>>,
                   logs |-> <<sending,
                              Log("error", "Exception occurred while sending request")>>,
                   ret |-> None, raised |-> "none"]
             ELSE [calls |-> <<post>>, logs |-> <<sending>>,
                   ret |-> NoReturn, raised |-> out.post]
        ELSE IF out.status_code = 200
        THEN [calls |-> <<post>>,
              logs |-> <<sending, status,
                         Log("info", "Successfully sent the request on callback url")>>,
              ret |-> response, raised |-> "none"]
        ELSE IF out.json = "ok"
        THEN [calls |-> <<post, [m |-> "response.json"]>>,
              logs |-> <<sending, status, failed,
                         Log("info", "The response object is and the callback payload was")>>,
              ret |-> None, raised |-> "none"]
        ELSE IF handles({"AttributeError"}, out.json)
        THEN [calls |-> <<post, [m |-> "response.json"]>>,
              logs |-> <<sending, status, failed,
                         Log("info", "The response object error message is not available.")>>,
              ret |-> None, raised |-> "none"]
        ELSE [calls |-> <<post, [m |-> "response.json"]>>,
              logs |-> <<sending, status, failed>>,
              ret |-> NoReturn, raised |-> out.json]

----------------------------------------------------------------------------
(* The state machine: the task runner calls the functions in any order,    *)
(* passing the handles it holds or None.                                   *)

Statements ==
    { prepare_sql_statement_failure("abc-123", "tasks", FAILED),
      prepare_sql_statement_success("abc-123", "tasks", SUCCESS,
                                    << <<"summary", JStr("ok")>> >>) }
Buckets == {"bucket-a", "bucket-b"}
Keys == {"summary/1.txt", "summary/2.txt"}
Urls == {"https://s3/x?X-Amz-Signature=1", "https://s3/y?X-Amz-Signature=2"}
Expiries == {SignedUrlExpirySecs, 3600}
S3Outs == [upload : {"ok", "ClientError"},
           presign : {"ok", "ClientError", "NoCredentialsError"},
           url : Urls]
PostOuts == [post : {"ok", "RequestException", "ConnectionError"},
             status_code : {200, 404, 500},
             json : {"ok", "JSONDecodeError", "AttributeError"}]
Payloads == { << <<"summary", JStr("ok")>> >>, << <<"a", JNull>>, <<"b", JInt(-1)>> >> }
\* the handles the caller can pass: the object it holds, or None
Handles == IF held THEN BOOLEAN ELSE {FALSE}

Init ==
    /\ conn = "none" /\ cur = "none" /\ held = FALSE /\ open_conns = 0
    /\ op = "none" /\ args = <<>> /\ calls = <<>> /\ logs = <<>> /\ built = <<>>
    /\ ret = NoReturn /\ raised = "none"

\* conn.close() on the open connection releases it
Released(before, after) == IF before = "open" /\ after = "closed" THEN 1 ELSE 0

Call_db_connection ==
    \E connect \in {"ok", "OperationalError"}, cursor \in {"ok", "InterfaceError"} :
        \* a server at its limit refuses the connection
        /\ connect = "ok" => open_conns < MaxOpenConns
        /\ LET r == db_connection(connect, cursor)
           IN  /\ op' = "db_connection"
               /\ args' = [connect |-> connect, cursor |-> cursor]
               /\ conn' = r.conn /\ cur' = r.cur
               /\ held' = (r.ret.kind = "pair" /\ r.ret.fst.kind # "None")
               /\ open_conns' = open_conns + (IF r.conn = "open" THEN 1 ELSE 0)
               /\ calls' = r.calls /\ logs' = r.logs /\ built' = <<>>
               /\ ret' = r.ret /\ raised' = r.raised

Call_status_update_db ==
    \E db_conn \in Handles, db_cursor \in Handles, sql \in Statements, f \in Faults :
        LET r == status_update_db(db_conn, db_cursor, sql, conn, cur, f)
        IN  /\ op' = "status_update_db"
            /\ args' = [db_conn |-> db_conn, db_cursor |-> db_cursor,
                        sql_statement |-> sql, f |-> f, conn |-> conn, cur |-> cur]
            /\ conn' = r.conn /\ cur' = r.cur
            /\ open_conns' = open_conns - Released(conn, r.conn)
            /\ calls' = r.calls /\ logs' = r.logs /\ built' = <<>>
            /\ ret' = IF r.raised = "none" THEN None ELSE NoReturn
            /\ raised' = r.raised
            /\ UNCHANGED held

Call_update_db_table_callback_retry ==
    \E db_conn \in Handles, db_cursor \in Handles, unique_id \in {"", "abc-123"},
       db_table \in {"", "tasks"}, now_date \in NowDates, f \in Faults :
        LET r == update_db_table_callback_retry(db_conn, db_cursor, unique_id,
                                                db_table, now_date, conn, cur, f)
        IN  /\ op' = "update_db_table_callback_retry"
            /\ args' = [db_conn |-> db_conn, db_cursor |-> db_cursor,
                        unique_id |-> unique_id, db_table |-> db_table,
                        now_date |-> now_date, f |-> f, conn |-> conn, cur |-> cur]
            /\ conn' = r.conn /\ cur' = r.cur
            /\ open_conns' = open_conns - Released(conn, r.conn)
            /\ calls' = r.calls /\ logs' = r.logs /\ built' = r.built
            /\ ret' = IF r.raised = "none" THEN None ELSE NoReturn
            /\ raised' = r.raised
            /\ UNCHANGED held

Call_send_request_on_callback ==
    \E response_data \in Payloads, out \in PostOuts :
        LET r == send_request_on_callback("https://caller/cb", response_data,
                                          "json-headers", out)
        IN  /\ op' = "send_request_on_callback"
            /\ args' = [response_data |-> response_data, out |-> out]
            /\ calls' = r.calls /\ logs' = r.logs /\ built' = <<>>
            /\ ret' = r.ret /\ raised' = r.raised
            /\ UNCHANGED <<conn, cur, held, open_conns>>

Call_generate_presigned_url ==
    \E bucket_name \in Buckets, key \in Keys, s3_client \in BOOLEAN,
       expiry \in Expiries, out \in {o \in S3Outs : o.upload = "ok"} :
        LET r == generate_presigned_url(bucket_name, key, s3_client, expiry,
                                        DefaultRegion, out)
        IN  /\ op' = "generate_presigned_url"
            /\ args' = [bucket_name |-> bucket_name, key |-> key,
                        s3_client |-> s3_client, signed_url_expiry_secs |-> expiry,
                        out |-> out]
            /\ calls' = r.calls /\ logs' = r.logs /\ built' = <<>>
            /\ ret' = r.ret /\ raised' = r.raised
            /\ UNCHANGED <<conn, cur, held, open_conns>>

Call_upload_to_s3 ==
    \E bucket_name \in Buckets, key \in Keys, s3_client \in BOOLEAN,
       out \in S3Outs :
        LET contents_type == "text/plain"
            expiry == SignedUrlExpirySecs
            r == upload_to_s3("the summary", contents_type, bucket_name, key,
                              DefaultRegion, s3_client, expiry, out)
        IN  /\ op' = "upload_to_s3"
            /\ args' = [contents_type |-> contents_type, bucket_name |-> bucket_name,
                        key |-> key, s3_client |-> s3_client,
                        signed_url_expiry_secs |-> expiry, out |-> out]
            /\ calls' = r.calls /\ logs' = r.logs /\ built' = <<>>
            /\ ret' = r.ret /\ raised' = r.raised
            /\ UNCHANGED <<conn, cur, held, open_conns>>

Call_prepare_sql_statement_success ==
    \E unique_id \in UniqueIds, db_table \in DbTables, status \in StateHandler,
       response_data \in ResponseDatas :
        /\ op' = "prepare_sql_statement_success"
        /\ args' = [unique_id |-> unique_id, db_table |-> db_table,
                    status |-> status, response_data |-> response_data]
        /\ ret' = Str(prepare_sql_statement_success(unique_id, db_table, status,
                                                    response_data))
        /\ built' = <<ret'.v>>
        /\ calls' = <<>> /\ logs' = <<>> /\ raised' = "none"
        /\ UNCHANGED <<conn, cur, held, open_conns>>

Call_prepare_sql_statement_failure ==
    \E unique_id \in UniqueIds, db_table \in DbTables, status \in StateHandler :
        /\ op' = "prepare_sql_statement_failure"
        /\ args' = [unique_id |-> unique_id, db_table |-> db_table, status |-> status]
        /\ ret' = Str(prepare_sql_statement_failure(unique_id, db_table, status))
        /\ built' = <<ret'.v>>
        /\ calls' = <<>> /\ logs' = <<>> /\ raised' = "none"
        /\ UNCHANGED <<conn, cur, held, open_conns>>

Call_prepare_sql_statement_callback_failure ==
    \E unique_id \in UniqueIds, db_table \in DbTables, now_date \in NowDates :
        /\ op' = "prepare_sql_statement_callback_failure"
        /\ args' = [unique_id |-> unique_id, db_table |-> db_table,
                    now_date |-> now_date]
        /\ ret' = Str(prepare_sql_statement_callback_failure(unique_id, db_table,
                                                             now_date))
        /\ built' = <<ret'.v>>
        /\ calls' = <<>> /\ logs' = <<>> /\ raised' = "none"
        /\ UNCHANGED <<conn, cur, held, open_conns>>

Next ==
    \/ Call_db_connection
    \/ Call_status_update_db
    \/ Call_update_db_table_callback_retry
    \/ Call_send_request_on_callback
    \/ Call_generate_presigned_url
    \/ Call_upload_to_s3
    \/ Call_prepare_sql_statement_success
    \/ Call_prepare_sql_statement_failure
    \/ Call_prepare_sql_statement_callback_failure

Spec == Init /\ [][Next]_vars

TypeOK ==
    /\ conn \in {"none", "open", "closed"} /\ cur \in {"none", "open", "closed"}
    /\ held \in BOOLEAN /\ open_conns \in 0..MaxOpenConns
    /\ raised \in {"none"} \cup DOMAIN Bases
    /\ ret.kind \in {"None", "str", "pair", "response", "no return"}
    /\ (raised = "none") = (ret.kind # "no return" \/ op = "none")

----------------------------------------------------------------------------
(* What the last call did *)

Made(m) == {i \in DOMAIN calls : calls[i].m = m}
Logged(level) == \E i \in DOMAIN logs : logs[i].level = level
LoggedMsg(level, msg) == \E i \in DOMAIN logs : logs[i] = Log(level, msg)
Returned == raised = "none"
ReturnedNone == raised = "none" /\ ret.kind = "None"

\* whether sub occurs in s
Contains(s, sub) ==
    \E i \in 1..(Len(s) - Len(sub) + 1) : SubSeq(s, i, i + Len(sub) - 1) = sub

\* s without its leading and trailing white space
Whitespace == {" ", "\n", "\t"}
RECURSIVE Strip(_)
Strip(s) ==
    IF s = "" THEN s
    ELSE IF SubSeq(s, 1, 1) \in Whitespace THEN Strip(SubSeq(s, 2, Len(s)))
    ELSE IF SubSeq(s, Len(s), Len(s)) \in Whitespace THEN Strip(SubSeq(s, 1, Len(s) - 1))
    ELSE s

----------------------------------------------------------------------------
(* Status Updater *)

InStatusUpdate == op = "status_update_db"
\* the execute of the call raised: a database error, or a handle not open
ExecuteRaised == args.f = "execute" \/ args.cur # "open" \/ args.conn # "open"

\* C1: status_update_db with a cursor whose execute raises and a connection
\* that is present returns without raising, logs an error, and closes the
\* connection as its last step.
C1_ExecuteErrorSwallowed ==
    (InStatusUpdate /\ args.db_cursor /\ args.db_conn /\ ExecuteRaised)
        => /\ ReturnedNone
           /\ Logged("error")
           /\ Made("cursor.execute") = {1}
           /\ Made("conn.commit") = {}
           /\ Made("conn.close") = {Len(calls)}
           /\ conn = "closed"

C1_Witness ==
    /\ InStatusUpdate /\ args.db_cursor /\ args.db_conn
    /\ args.f = "execute" /\ args.conn = "open" /\ args.cur = "open"
    /\ conn = "closed" /\ Logged("error")

\* C2: every status_update_db with a cursor and a connection attempts exactly
\* one execute and calls cursor.close and then conn.close before it returns,
\* whether or not execute or commit raised.
C2_BothClosedInOrder ==
    (InStatusUpdate /\ args.db_cursor /\ args.db_conn)
        => /\ Cardinality(Made("cursor.execute")) = 1
           /\ Cardinality(Made("cursor.close")) = 1
           /\ Cardinality(Made("conn.close")) = 1
           /\ \A i \in Made("cursor.close"), j \in Made("conn.close") : i < j

\* C8: status_update_db with a null cursor makes no execute and no commit and
\* raises nothing, with the connection present or absent.
C8_NullCursorNoOp ==
    (InStatusUpdate /\ ~args.db_cursor)
        => /\ Made("cursor.execute") = {}
           /\ Made("conn.commit") = {}
           /\ ReturnedNone

C8_Witness ==
    /\ InStatusUpdate /\ ~args.db_cursor /\ args.db_conn
    /\ args.conn = "open" /\ calls = <<>> /\ Returned

----------------------------------------------------------------------------
(* Callback Notifier *)

InCallback == op = "send_request_on_callback"

\* C3: send_request_on_callback posts exactly once and returns the response
\* exactly when the post completed with status 200; when the transport raises
\* a request exception or the status is not 200 it returns None.
C3_ResponseIffStatus200 ==
    InCallback
        => /\ Cardinality(Made("requests.post")) = 1
           /\ Returned
           /\ IF args.out.post = "ok" /\ args.out.status_code = 200
              THEN ret.kind = "response" /\ ret.status_code = 200
              ELSE ret.kind = "None"

\* C4: a response that is not 200 and whose body cannot be parsed makes
\* send_request_on_callback log the fallback message and return None; no
\* exception reaches the caller.
C4_UnparseableBodyFallback ==
    (InCallback /\ args.out.post = "ok" /\ args.out.status_code # 200
                /\ args.out.json # "ok")
        => /\ ReturnedNone
           /\ LoggedMsg("info", "The response object error message is not available.")

----------------------------------------------------------------------------
(* Object Storage Uploader *)

InUpload == op = "upload_to_s3"

\* C5: upload_to_s3 asks for the presigned url only after the upload to the
\* bucket and key has completed without error, for that bucket and key, and
\* returns the url of the client unchanged; when the upload raises a client
\* error no url is asked for and None is returned; when
\* generate_presigned_url raises a client error None is returned and the
\* error is logged.
C5_PresignAfterUpload ==
    InUpload
        => /\ Made("bucket.upload_fileobj") = {1}
           /\ calls[1].Bucket = args.bucket_name /\ calls[1].Key = args.key
           /\ \A i \in Made("s3_client.generate_presigned_url") :
                  /\ i > 1 /\ args.out.upload = "ok"
                  /\ calls[i].Bucket = args.bucket_name /\ calls[i].Key = args.key
           /\ (args.out.upload = "ok" /\ args.out.presign = "ok")
                  => /\ Cardinality(Made("s3_client.generate_presigned_url")) = 1
                     /\ Returned /\ ret.kind = "str" /\ ret.v = args.out.url
           /\ args.out.upload = "ClientError"
                  => /\ Made("s3_client.generate_presigned_url") = {}
                     /\ ReturnedNone
           /\ (args.out.upload = "ok" /\ args.out.presign = "ClientError")
                  => ReturnedNone /\ Logged("error")

C5_Witness ==
    /\ InUpload /\ args.out.upload = "ok" /\ args.out.presign = "ok"
    /\ Len(calls) >= 2 /\ ret.kind = "str" /\ ret.v = args.out.url

----------------------------------------------------------------------------
(* Callback-Retry Recorder *)

InRetry == op = "update_db_table_callback_retry"
MissingField == args.unique_id = "" \/ args.db_table = ""
\* the retry-insert statement for the id and the table: retries_count 0, status 3
IsRetryInsert(sql) ==
    /\ Contains(sql, "INSERT INTO " \o args.db_table
                     \o " (request_unique_id, created_at, modified_at, retries_count, status)")
    /\ Contains(sql, "VALUES ('" \o args.unique_id \o "', '" \o args.now_date
                     \o "', '" \o args.now_date \o "', 0, 3)")
NothingDone ==
    /\ built = <<>>
    /\ Made("cursor.execute") = {} /\ Made("conn.commit") = {}
    /\ Logged("error")

\* C6 as stated: with an empty unique_id or db_table nothing is built, executed
\* or committed and an error is logged; with both present exactly one statement
\* is executed, the retry-insert statement.
C6_OneInsertOrNothing ==
    InRetry
        => IF MissingField THEN NothingDone
           ELSE /\ Cardinality(Made("cursor.execute")) = 1
                /\ \A i \in Made("cursor.execute") : IsRetryInsert(calls[i].sql)

\* C6 as amended: with an empty unique_id or db_table nothing is built, executed
\* or committed and an error is logged; with both present the retry-insert
\* statement is built, and it is the one statement whose execution is attempted
\* when the cursor is not null, while a null cursor executes nothing.
C6_OneInsertGivenCursor ==
    InRetry
        => IF MissingField THEN NothingDone
           ELSE /\ Len(built) = 1 /\ IsRetryInsert(built[1])
                /\ Cardinality(Made("cursor.execute")) = (IF args.db_cursor THEN 1 ELSE 0)
                /\ \A i \in Made("cursor.execute") : calls[i].sql = built[1]

C6_Witness ==
    /\ InRetry /\ args.unique_id = "" /\ args.db_table # ""
    /\ args.db_conn /\ args.db_cursor /\ args.cur = "open"
    /\ calls = <<>> /\ Logged("error")

\* C10: an update_db_table_callback_retry given an open connection and cursor
\* has closed the connection when it returns, whatever unique_id and db_table
\* are, empty ones included.
C10_RetryClosesConnection ==
    (InRetry /\ args.db_conn /\ args.db_cursor
             /\ args.conn = "open" /\ args.cur = "open")
        => conn = "closed"

----------------------------------------------------------------------------
(* Database Connector *)

InConnect == op = "db_connection"

\* C7: db_connection lets no exception escape; a failure of the connection or
\* of the cursor is logged and gives (None, None), success gives a connection
\* and a cursor that are both not None, and no pair has exactly one None.
C7_BothOrNeither ==
    InConnect
        => /\ Returned /\ ret.kind = "pair"
           /\ (ret.fst.kind = "None") = (ret.snd.kind = "None")
           /\ IF args.connect = "ok" /\ args.cursor = "ok"
              THEN ret.fst.kind # "None" /\ ret.snd.kind # "None"
              ELSE ret.fst.kind = "None" /\ ret.snd.kind = "None" /\ Logged("error")

C7_Witness ==
    /\ InConnect /\ args.connect = "ok" /\ args.cursor # "ok"
    /\ ret.kind = "pair" /\ ret.fst.kind = "None" /\ ret.snd.kind = "None"

----------------------------------------------------------------------------
(* SQL Statement Builders *)

InSuccessStatement == op = "prepare_sql_statement_success"
\* the statement the contract gives for the arguments
SuccessStatement ==
    "UPDATE " \o args.db_table \o " SET status='" \o ToString(args.status)
        \o "', result_data='" \o json_dumps(args.response_data)
        \o "' WHERE unique_id='" \o args.unique_id \o "'"
IsExample ==
    /\ args.unique_id = "abc-123" /\ args.db_table = "tasks" /\ args.status = 2
    /\ args.response_data = << <<"summary", JStr("ok")>> >>
ExampleStatement ==
    "UPDATE tasks SET status='2', result_data='{\"summary\": \"ok\"}' WHERE unique_id='abc-123'"

\* C9 as stated: prepare_sql_statement_success returns exactly the UPDATE
\* statement, with nothing before or after it.
C9_ExactStatement ==
    InSuccessStatement
        => /\ ret.v = SuccessStatement
           /\ IsExample => ret.v = ExampleStatement

\* C9 as amended: prepare_sql_statement_success returns the UPDATE statement
\* with the values unmodified, preceded by a newline and eight spaces and
\* followed by a newline and four spaces, so equal to it once stripped.
C9_StatementInWhitespace ==
    InSuccessStatement
        => /\ ret.v = "\n        " \o SuccessStatement \o "\n    "
           /\ Strip(ret.v) = SuccessStatement
           /\ IsExample => Strip(ret.v) = ExampleStatement

C9_Witness ==
    InSuccessStatement /\ IsExample /\ Strip(ret.v) = ExampleStatement

====
